---- MODULE Spec2Model ----
(***************************************************************************)
(* CortexAgent Framework: the event bus (src/core/EventBus.js), the agent  *)
(* cycle (Agent in src/core/Config.js) and the memory system               *)
(* (src/memory/MemorySystem.js) as one state machine, with the action      *)
(* system, the cognitive system and Config also driven on their own.       *)
(*                                                                         *)
(* JavaScript is single threaded: every action below is one synchronous    *)
(* run of code, from the resumption of a suspended `await` (or an external *)
(* call) up to the next suspension.                                        *)
(***************************************************************************)
EXTENDS Integers, Sequences, FiniteSets, TLC

VARIABLES
  listeners,       \* EventBus.listeners: event name -> array of callbacks
  workingMemory,   \* MemorySystem.workingMemory
  episodicMemory,  \* MemorySystem.episodicMemory (insertion ordered array)
  memoryIndexes,   \* MemorySystem.memoryIndexes: episodicByDate, episodicByTopic
  now,             \* last value returned by Date.now()
  nextObj,         \* allocation counter: identity of the next episode object
  insertions,      \* history: episodes stored since the store was last empty
  microtasks,      \* the promise job queue (FIFO)
  ioPending,       \* continuations waiting for an I/O completion
  llmService,      \* CognitiveSystem.llmService is set (config.cognition.llm)
  calls,           \* per Agent.process call: state of the caller's promise
  signals,         \* history: per call, the cycle signals published for it
  errors,          \* history: payloads of the `error` signals published
  raised,          \* history: the errors raised by Perception and Cognition
  completions,     \* history: what the store held at each cycle:complete publication
  registry,        \* history: per event, the registration behind each array entry
  handles,         \* history: the unsubscribe handles returned by EventBus.on
  emission,        \* history: the EventBus.emit call a client of the bus has just made
  execution,       \* the ActionSystem.execute call made by a client of the action system
  agent,           \* Agent.initialized, and the calls of initialize made after construction
  queried,         \* history: the query method a client of the store has just called
  cognition,       \* the CognitiveSystem driven by a client, and its process call
  config           \* a Config driven by a client: this.config, this.validators, the last set

vars == <<listeners, workingMemory, episodicMemory, memoryIndexes, now, nextObj,
          insertions, microtasks, ioPending, llmService, calls, signals, errors, raised,
          completions, registry, handles, emission, execution, agent, queried, cognition, config>>

(***************************************************************************)
(* Bounds of the model.                                                    *)
(***************************************************************************)
MaxEpisodicMemory == 2   \* capacity of the episodic store (config.limits.episodicMemory)
MaxNow == 2              \* Date.now() ranges over 1..MaxNow
DayLength == 2           \* clock units per calendar day
RandomRange == 1         \* Math.floor(Math.random() * 1000) ranges over 0..RandomRange-1
MaxStores == 3           \* storeEpisode calls made directly on the store
MaxRegistrations == 3    \* EventBus.on calls made directly on the bus
MaxHandleCalls == 2      \* invocations of one unsubscribe handle
NumCalls == 2            \* Agent.process calls made on the agent
MaxPlanLength == 3       \* steps of a plan handed to ActionSystem.execute
MaxInitializeCalls == 1  \* Agent.initialize calls made after construction
MaxPathLength == 2       \* parts of a path handed to Config.set

(***************************************************************************)
(* JavaScript values.  An optional value is a sequence of length 0         *)
(* (undefined) or 1.                                                       *)
(***************************************************************************)
Undefined == <<>>
Some(x) == <<x>>
IsDefined(o) == o # <<>>
Value(o) == o[1]

Range(s) == {s[i] : i \in 1..Len(s)}

\* Array.prototype.filter with the predicate `e.id !== id`
FilterIdNot(s, id) == SelectSeq(s, LAMBDA e : e.id # id)

(***************************************************************************)
(* A JavaScript Map: entries in insertion order of their keys.             *)
(***************************************************************************)
MapHas(m, k) == \E i \in 1..Len(m) : m[i].key = k
MapGet(m, k) == m[CHOOSE i \in 1..Len(m) : m[i].key = k].value
MapSet(m, k, v) ==
  IF MapHas(m, k)
    THEN [i \in 1..Len(m) |-> IF m[i].key = k THEN [key |-> k, value |-> v] ELSE m[i]]
    ELSE Append(m, [key |-> k, value |-> v])
\* a deletion that leaves the key with an empty array
MapEmpties(m, k) == [i \in 1..Len(m) |-> IF m[i].key = k THEN [key |-> k, value |-> <<>>] ELSE m[i]]

MapDelete(m, k) == SelectSeq(m, LAMBDA e : e.key # k)
MapKeys(m) == {m[i].key : i \in 1..Len(m)}

(***************************************************************************)
(* Words of perceived text.  `text.toLowerCase().split(/\W+/)` is modelled *)
(* on texts that are already sequences of lower-case words.                *)
(***************************************************************************)
Words == {"the", "there", "data", "agent", "memory", "signal", "planet", "vector", "matrix"}

\* word.length
WordLength(w) ==
  CASE w = "the" -> 3
    [] w = "data" -> 4
    [] w = "there" -> 5
    [] w = "agent" -> 5
    [] OTHER -> 6

\* the members of the stopword set that are in Words
stopwords == {"the", "there"}

\* Array.prototype.sort((a, b) => b.k - a.k): stable, descending on k
RECURSIVE InsertDesc(_, _)
InsertDesc(x, s) ==
  IF s = <<>> THEN <<x>>
  ELSE IF Head(s).k >= x.k THEN <<Head(s)>> \o InsertDesc(x, Tail(s))
  ELSE <<x>> \o s

RECURSIVE SortDesc(_)
SortDesc(s) ==
  IF s = <<>> THEN <<>>
  ELSE InsertDesc(s[Len(s)], SortDesc(SubSeq(s, 1, Len(s) - 1)))

\* Array.prototype.slice(0, n)
Slice(s, n) == SubSeq(s, 1, IF n < Len(s) THEN n ELSE Len(s))

\* the keys of keywordFrequency in insertion order, with their counts
RECURSIVE CountWords(_, _)
CountWords(ws, freq) ==
  IF ws = <<>> THEN freq
  ELSE CountWords(Tail(ws),
         MapSet(freq, Head(ws), (IF MapHas(freq, Head(ws)) THEN MapGet(freq, Head(ws)) ELSE 0) + 1))

\* words.filter(word => word.length > 4 && !stopwords.has(word))
Keywords(text) == SelectSeq(text, LAMBDA w : WordLength(w) > 4 /\ w \notin stopwords)

\* Array.from(keywordFrequency.entries()), keyed by the count
Entries(keywordFrequency) ==
  [i \in 1..Len(keywordFrequency) |->
     [k |-> keywordFrequency[i].value, v |-> keywordFrequency[i].key]]

\* .map(entry => entry[0])
Keys(entries) == [i \in 1..Len(entries) |-> entries[i].v]

ExtractKeywordsFromText(text, topics) ==
  topics \o Keys(Slice(SortDesc(Entries(CountWords(Keywords(text), <<>>))), 5))

\* [...new Set(topics)]
RECURSIVE Dedupe(_, _)
Dedupe(s, acc) ==
  IF s = <<>> THEN acc
  ELSE Dedupe(Tail(s), IF Head(s) \in Range(acc) THEN acc ELSE Append(acc, Head(s)))

RECURSIVE ExtractFromPerceptions(_, _)
ExtractFromPerceptions(ps, topics) ==
  IF ps = <<>> THEN topics
  ELSE ExtractFromPerceptions(Tail(ps),
         IF Head(ps).value # <<>> THEN ExtractKeywordsFromText(Head(ps).value, topics) ELSE topics)

ExtractTopics(perceivedData) ==
  Dedupe(IF perceivedData.kind = "string"
           THEN ExtractKeywordsFromText(perceivedData.text, <<>>)
         ELSE IF IsDefined(perceivedData.perceptions)
           THEN ExtractFromPerceptions(
                  SelectSeq(Value(perceivedData.perceptions), LAMBDA p : p.type = "text"), <<>>)
         ELSE <<>>,
         <<>>)

(***************************************************************************)
(* Episodic store.                                                         *)
(***************************************************************************)
\* new Date(timestamp).setHours(0, 0, 0, 0)
DateKey(timestamp) == timestamp - (timestamp % DayLength)

\* `episode.perceivedData` is truthy
Truthy(perceivedData) ==
  /\ perceivedData.kind # "none"
  /\ ~(perceivedData.kind = "string" /\ perceivedData.text = <<>>)

\* for (const topic of topics) { ...; topicIndex.get(topic).push(episode) }
RECURSIVE PushToTopics(_, _, _)
PushToTopics(topicIndex, topics, episode) ==
  IF topics = <<>> THEN topicIndex
  ELSE LET topic == Head(topics)
           created == IF MapHas(topicIndex, topic) THEN topicIndex
                      ELSE MapSet(topicIndex, topic, <<>>)
       IN  PushToTopics(MapSet(created, topic, Append(MapGet(created, topic), episode)),
                        Tail(topics), episode)

\* The episode object as it is once _updateEpisodicIndexes returns: the
\* extracted topics are assigned to the object that the array and the date
\* bucket already reference.
AssignTopics(episode, extractedTopics) ==
  IF Len(extractedTopics) > 0 THEN [episode EXCEPT !.topics = Some(extractedTopics)]
  ELSE episode

WithExtractedTopics(episode) ==
  IF ~IsDefined(episode.topics) /\ Truthy(episode.perceivedData)
    THEN AssignTopics(episode, ExtractTopics(episode.perceivedData))
    ELSE episode

\* _updateEpisodicIndexes; `episode` is the object after the call
UpdateEpisodicIndexes(indexes, episode) ==
  LET dateKey == DateKey(episode.timestamp)
      dateIndex == indexes.episodicByDate
      created == IF MapHas(dateIndex, dateKey) THEN dateIndex ELSE MapSet(dateIndex, dateKey, <<>>)
      dateIndex2 == MapSet(created, dateKey, Append(MapGet(created, dateKey), episode))
      topicIndex2 == IF IsDefined(episode.topics)
                       THEN PushToTopics(indexes.episodicByTopic, Value(episode.topics), episode)
                       ELSE indexes.episodicByTopic
  IN  [episodicByDate |-> dateIndex2, episodicByTopic |-> topicIndex2]

RECURSIVE RemoveFromTopics(_, _, _)
RemoveFromTopics(topicIndex, topics, episode) ==
  IF topics = <<>> THEN topicIndex
  ELSE LET topic == Head(topics)
           next ==
             IF MapHas(topicIndex, topic)
               THEN LET episodes == FilterIdNot(MapGet(topicIndex, topic), episode.id)
                    IN  IF Len(episodes) = 0 THEN MapDelete(topicIndex, topic)
                        ELSE MapSet(topicIndex, topic, episodes)
               ELSE topicIndex
       IN  RemoveFromTopics(next, Tail(topics), episode)

RemoveFromEpisodicIndexes(indexes, episode) ==
  LET dateKey == DateKey(episode.timestamp)
      dateIndex == indexes.episodicByDate
      dateIndex2 ==
        IF MapHas(dateIndex, dateKey)
          THEN LET episodes == FilterIdNot(MapGet(dateIndex, dateKey), episode.id)
               IN  IF Len(episodes) = 0 THEN MapDelete(dateIndex, dateKey)
                   ELSE MapSet(dateIndex, dateKey, episodes)
          ELSE dateIndex
      topicIndex2 ==
        IF IsDefined(episode.topics)
          THEN RemoveFromTopics(indexes.episodicByTopic, Value(episode.topics), episode)
          ELSE indexes.episodicByTopic
  IN  [episodicByDate |-> dateIndex2, episodicByTopic |-> topicIndex2]

\* `episode-${Date.now()}-${Math.floor(Math.random() * 1000)}`
GeneratedId(t, r) == <<"episode", t, r>>

\* the trim of storeEpisode
Trim(memory, indexes) ==
  IF Len(memory) > MaxEpisodicMemory
    THEN [episodicMemory |-> Tail(memory),
          memoryIndexes |-> RemoveFromEpisodicIndexes(indexes, Head(memory))]
    ELSE [episodicMemory |-> memory, memoryIndexes |-> indexes]

\* storeEpisode(episode) with Date.now() = t and Math.random() giving r;
\* the result carries the stored object and the new store
\* if (!episode.id) episode.id = ...
WithId(episode, t, r) ==
  IF episode.id = <<>> THEN [episode EXCEPT !.id = GeneratedId(t, r)] ELSE episode

\* an assignment of the timestamp that does not look at the supplied one
AlwaysTimestamp(episode, t) == [episode EXCEPT !.timestamp = t]

\* if (!episode.timestamp) episode.timestamp = Date.now()
WithTimestamp(episode, t) ==
  IF episode.timestamp = 0 THEN [episode EXCEPT !.timestamp = t] ELSE episode

\* push, index and trim the object `episode`
Stored(memory, indexes, episode) ==
  [episode |-> episode] @@ Trim(Append(memory, episode), UpdateEpisodicIndexes(indexes, episode))

StoreEpisode(memory, indexes, episode, t, r) ==
  [input |-> episode]
    @@ Stored(memory, indexes, WithExtractedTopics(WithTimestamp(WithId(episode, t, r), t)))

\* getEpisode(episodeId): the first match, or Undefined for null
GetEpisode(memory, episodeId) ==
  IF \E i \in 1..Len(memory) : memory[i].id = episodeId
    THEN Some(memory[CHOOSE i \in 1..Len(memory) :
                 /\ memory[i].id = episodeId
                 /\ \A j \in 1..(i - 1) : memory[j].id # episodeId])
    ELSE Undefined

\* [...this.episodicMemory] as sort entries keyed by the timestamp
ByTimestamp(episodes) ==
  [i \in 1..Len(episodes) |-> [k |-> episodes[i].timestamp, v |-> episodes[i]]]

\* the episodes of sorted entries
Episodes(entries) == [i \in 1..Len(entries) |-> entries[i].v]

\* the first `count` episodes in insertion order
GetRecentUnsorted(memory, count) == Slice(memory, count)

\* getRecentEpisodes(count)
GetRecentEpisodes(memory, count) ==
  Episodes(Slice(SortDesc(ByTimestamp(memory)), count))

\* for (const [timestamp, episodes] of dateIndex.entries()) { ... }
RECURSIVE CollectDays(_, _, _, _)
CollectDays(dateIndex, startTimestamp, endTimestamp, result) ==
  IF dateIndex = <<>> THEN result
  ELSE CollectDays(Tail(dateIndex), startTimestamp, endTimestamp,
         IF Head(dateIndex).key >= startTimestamp /\ Head(dateIndex).key <= endTimestamp
           THEN result \o Head(dateIndex).value
           ELSE result)

\* getEpisodesByDate(startDate, endDate)
GetEpisodesByDate(indexes, startDate, endDate) ==
  Episodes(SortDesc(ByTimestamp(CollectDays(indexes.episodicByDate, startDate, endDate, <<>>))))

\* getEpisodesByTopic(topic)
GetEpisodesByTopic(indexes, topic) ==
  IF MapHas(indexes.episodicByTopic, topic) THEN MapGet(indexes.episodicByTopic, topic) ELSE <<>>

\* _initializeIndexes
InitializeIndexes == [episodicByDate |-> <<>>, episodicByTopic |-> <<>>]

\* a clear that resets the arrays but not the indexes
ClearedSequenceOnly ==
  [workingMemory |-> <<>>, episodicMemory |-> <<>>, memoryIndexes |-> memoryIndexes]

\* clearAllMemory: the arrays and maps after the call; the method is one
\* synchronous run and publishes memory:clear:all after its last assignment
ClearedMemory == [workingMemory |-> <<>>, episodicMemory |-> <<>>, memoryIndexes |-> InitializeIndexes]

\* the history entry of one storeEpisode call: the identity of the object,
\* the id and timestamp it has when the call returns, and what the caller
\* supplied
Inserted(stored) ==
  [obj |-> stored.episode.obj, id |-> stored.episode.id,
   timestamp |-> stored.episode.timestamp,
   supplied |-> [id |-> stored.input.id, timestamp |-> stored.input.timestamp,
                 topics |-> IsDefined(stored.input.topics)]]

(***************************************************************************)
(* Values the opaque payloads take.                                        *)
(***************************************************************************)
NoData == [kind |-> "none", raw |-> 0, text |-> <<>>, perceptions |-> Undefined]
NoCognitiveResult == [src |-> 0, plan |-> "object"]
NoActionResult == [src |-> 0, success |-> TRUE]

\* PerceptionSystem.process: { raw: input, perceptions } with one text perception
TextOf(input) == IF input = 1 THEN <<"agent", "memory">> ELSE <<"agent", "signal">>
PerceivedData(input) ==
  [kind |-> "object", raw |-> input, text |-> <<>>,
   perceptions |-> Some(<<[type |-> "text", value |-> TextOf(input)]>>)]

(***************************************************************************)
(* The store driven directly through its public methods.                   *)
(***************************************************************************)
SuppliedIds == {Undefined, <<"episode", 1, 0>>, <<"custom">>}
SuppliedTimestamps == {0, 2}
\* perceived data that carries two text items
TwoTexts ==
  [kind |-> "object", raw |-> 0, text |-> <<>>,
   perceptions |-> Some(<<[type |-> "text", value |-> <<"agent", "memory", "signal", "the">>],
                          [type |-> "text", value |-> <<"planet", "vector", "matrix", "there", "data">>]>>)]

SuppliedContents ==
  {[topics |-> Undefined, perceivedData |-> NoData],
   [topics |-> Undefined, perceivedData |-> PerceivedData(1)],
   [topics |-> Undefined, perceivedData |-> TwoTexts],
   [topics |-> Some(<<"agent">>), perceivedData |-> NoData],
   [topics |-> Some(<<"agent", "agent">>), perceivedData |-> NoData]}

EpisodeInputs ==
  {[obj |-> 0, id |-> i, timestamp |-> ts, topics |-> c.topics,
    perceivedData |-> c.perceivedData, cognitiveResult |-> NoCognitiveResult, actionResult |-> NoActionResult] :
     i \in SuppliedIds, ts \in SuppliedTimestamps, c \in SuppliedContents}

\* the values Date.now() can return when storeEpisode reads the clock
ClockReads(episode) == IF episode.id = <<>> \/ episode.timestamp = 0 THEN now..MaxNow ELSE {now}
RandomReads(episode) == IF episode.id = <<>> THEN 0..(RandomRange - 1) ELSE {0}

\* no emission was made yet
NoEmission == [event |-> "", data |-> 0, live |-> {}, cleared |-> {}, snapshot |-> <<>>,
               removed |-> {}, added |-> {}, log |-> <<>>, returned |-> TRUE]

NoBusClient ==
  /\ registry = <<>>
  /\ handles = <<>>
  /\ emission = NoEmission

\* no call of ActionSystem.execute was made
NoExecution == [pc |-> "idle", plan |-> [kind |-> "null", steps |-> <<>>],
                currentStep |-> 0, results |-> <<>>, settled |-> "", result |-> Undefined]

\* a promise's settlement
Resolved(value) == [state |-> "resolved", value |-> value]
Rejected(error) == [state |-> "rejected", value |-> error]
NoSettled == [state |-> "", value |-> ""]

\* new ReasoningModule(config) / new PlanningModule(config): this.llmService = null
BuiltinModule == [kind |-> "builtin", llmService |-> FALSE]

\* new CognitiveSystem(config) without config.llm, attached to its agent's
\* bus; no call of process was made
NoCognition ==
  [pc |-> "idle", llmService |-> FALSE,
   reasoningModule |-> BuiltinModule, planningModule |-> BuiltinModule,
   analysis |-> "none", plan |-> "none", settled |-> NoSettled,
   signals |-> <<>>, failed |-> {}, outcome |-> "", result |-> Undefined]

\* no call of Config.set was made
NoSet == [path |-> <<>>, value |-> "", raised |-> "", before |-> <<>>]

\* new Config(): this.config = {}, this.validators = {}.  An object tree
\* is the function from the paths of its properties to "object" or to the
\* primitive value held there.
NoConfig == [config |-> <<>>, validators |-> <<>>, set |-> NoSet]

\* the collaborators driven on their own are at rest
NoUnits ==
  /\ execution = NoExecution
  /\ cognition = NoCognition
  /\ config = NoConfig

unitVars == <<execution, cognition, config>>

NoAgent ==
  /\ agent = [initialized |-> FALSE, initializeCalls |-> 0]
  /\ NoUnits
  /\ completions = {}
  /\ listeners = <<>>
  /\ microtasks = <<>>
  /\ ioPending = {}
  /\ llmService = FALSE
  /\ calls = <<>>
  /\ signals = <<>>
  /\ errors = <<>>
  /\ raised = {}

\* no query was made since the store last changed
NoQuery == ""

StoreInit ==
  /\ queried = NoQuery
  /\ workingMemory = <<>>
  /\ episodicMemory = <<>>
  /\ memoryIndexes = InitializeIndexes
  /\ now = 1
  /\ nextObj = 1
  /\ insertions = <<>>
  /\ NoAgent
  /\ NoBusClient

busVars == <<registry, handles, emission>>

agentVars == <<listeners, microtasks, ioPending, llmService, calls, signals, errors, raised,
               completions, busVars, unitVars, agent>>

\* memorySystem.storeEpisode(episode) called by a client of the store
StoreEpisodeCall ==
  /\ nextObj <= MaxStores
  /\ \E input \in EpisodeInputs :
     \E t \in ClockReads(input), r \in RandomReads(input) :
       \E stored \in {StoreEpisode(episodicMemory, memoryIndexes,
                                    [input EXCEPT !.obj = nextObj], t, r)} :
           /\ episodicMemory' = stored.episodicMemory
           /\ memoryIndexes' = stored.memoryIndexes
           /\ insertions' = Append(insertions, Inserted(stored))
           /\ now' = t
           /\ nextObj' = nextObj + 1
  /\ queried' = NoQuery
  /\ UNCHANGED <<workingMemory, agentVars>>

\* memorySystem.clearAllMemory()
ClearAllMemory ==
  /\ episodicMemory # <<>>
  /\ workingMemory' = ClearedMemory.workingMemory
  /\ episodicMemory' = ClearedMemory.episodicMemory
  /\ memoryIndexes' = ClearedMemory.memoryIndexes
  /\ insertions' = <<>>
  /\ queried' = NoQuery
  /\ UNCHANGED <<now, nextObj, agentVars>>

\* the arguments the queries are called with
QueryIds == SuppliedIds \ {Undefined}
QueryCounts == 1..MaxEpisodicMemory
QueryStartDates == {0, DayLength}
QueryEndDates == {MaxNow}
QueryTopics == {"agent", "signal"}

\* what a query leaves in the store
Leaves(memory, indexes) == [episodicMemory |-> memory, memoryIndexes |-> indexes]

\* a getRecentEpisodes that sorts this.episodicMemory itself
AfterSortInPlace(memory, indexes, count) ==
  Leaves(Episodes(SortDesc(ByTimestamp(memory))), indexes)

\* getEpisode: Array.prototype.find reads the array
AfterGetEpisode(memory, indexes, episodeId) == Leaves(memory, indexes)

\* getRecentEpisodes: sort and slice act on the copy [...this.episodicMemory]
AfterGetRecentEpisodes(memory, indexes, count) == Leaves(memory, indexes)

\* getEpisodesByDate: the buckets are spread into the new array `result`,
\* and `result` is the array that is sorted
AfterGetEpisodesByDate(memory, indexes, startDate, endDate) == Leaves(memory, indexes)

\* getEpisodesByTopic: Map.prototype.get reads the index
AfterGetEpisodesByTopic(memory, indexes, topic) == Leaves(memory, indexes)

\* a query called by a client of the store: `method` was called and left `after`
Query(method, after) ==
  /\ episodicMemory' = after.episodicMemory
  /\ memoryIndexes' = after.memoryIndexes
  /\ queried' = method
  /\ UNCHANGED <<workingMemory, now, nextObj, insertions, agentVars>>

\* memorySystem.getEpisode(episodeId)
GetEpisodeCall ==
  \E episodeId \in QueryIds :
    Query("getEpisode", AfterGetEpisode(episodicMemory, memoryIndexes, episodeId))

\* memorySystem.getRecentEpisodes(count)
GetRecentEpisodesCall ==
  \E count \in QueryCounts :
    Query("getRecentEpisodes", AfterGetRecentEpisodes(episodicMemory, memoryIndexes, count))

\* memorySystem.getEpisodesByDate(startDate, endDate)
GetEpisodesByDateCall ==
  \E startDate \in QueryStartDates, endDate \in QueryEndDates :
    Query("getEpisodesByDate",
          AfterGetEpisodesByDate(episodicMemory, memoryIndexes, startDate, endDate))

\* memorySystem.getEpisodesByTopic(topic)
GetEpisodesByTopicCall ==
  \E topic \in QueryTopics :
    Query("getEpisodesByTopic", AfterGetEpisodesByTopic(episodicMemory, memoryIndexes, topic))

StoreNext ==
  \/ StoreEpisodeCall
  \/ ClearAllMemory
  \/ GetEpisodeCall
  \/ GetRecentEpisodesCall
  \/ GetEpisodesByDateCall
  \/ GetEpisodesByTopicCall

StoreSpec == StoreInit /\ [][StoreNext]_vars

(***************************************************************************)
(* Views of the store used by the properties.                              *)
(***************************************************************************)
Buckets(index) == {index[i].value : i \in 1..Len(index)}
Held(index) == UNION {Range(b) : b \in Buckets(index)}
Objs(S) == {e.obj : e \in S}

SequenceObjs == Objs(Range(episodicMemory))
DateObjs == Objs(Held(memoryIndexes.episodicByDate))
TopicObjs == Objs(Held(memoryIndexes.episodicByTopic))

(***************************************************************************)
(* Properties of the episodic store.                                       *)
(***************************************************************************)
\* C9: the episodes held in the day index are exactly the episodes of the
\* ordered sequence, and every episode held in a topic bucket is in the
\* ordered sequence.
C9_IndexesMatchSequence ==
  /\ DateObjs = SequenceObjs
  /\ TopicObjs \subseteq SequenceObjs

\* the episodes stored since the store was last empty, earliest first
Earliest == SubSeq(insertions, 1, Len(insertions) - MaxEpisodicMemory)
Latest == SubSeq(insertions, Len(insertions) - MaxEpisodicMemory + 1, Len(insertions))

\* C10: after N > capacity storeEpisode calls on an empty store the length is
\* the capacity, the N - capacity earliest episodes are absent from getEpisode
\* and from every bucket of both indexes, and the capacity latest episodes
\* are all present.
C10_EvictsEarliest ==
  Len(insertions) > MaxEpisodicMemory =>
    /\ Len(episodicMemory) = MaxEpisodicMemory
    /\ \A e \in Range(Earliest) :
         /\ GetEpisode(episodicMemory, e.id) = Undefined
         /\ e.obj \notin DateObjs \cup TopicObjs
    /\ \A e \in Range(Latest) : e.obj \in SequenceObjs

\* the objects held in the bucket of `key`
BucketObjs(index, key) ==
  IF MapHas(index, key) THEN Objs(Range(MapGet(index, key))) ELSE {}

\* the topics of a stored episode
TopicsOf(episode) == IF IsDefined(episode.topics) THEN Range(Value(episode.topics)) ELSE {}

\* C11: after N <= capacity storeEpisode calls on an empty store the length
\* is N and nothing was evicted: getEpisode returns every stored episode, and
\* every stored episode is in its day bucket and in the bucket of each of its
\* topics.
C11_NoEvictionWithinCapacity ==
  Len(insertions) <= MaxEpisodicMemory =>
    /\ Len(episodicMemory) = Len(insertions)
    /\ \A i \in 1..Len(insertions) :
         /\ GetEpisode(episodicMemory, insertions[i].id) # Undefined
         /\ Value(GetEpisode(episodicMemory, insertions[i].id)).obj = insertions[i].obj
         /\ insertions[i].obj
              \in BucketObjs(memoryIndexes.episodicByDate, DateKey(insertions[i].timestamp))
         /\ \A topic \in TopicsOf(episodicMemory[i]) :
              insertions[i].obj \in BucketObjs(memoryIndexes.episodicByTopic, topic)

\* every bucket of `index` that held `obj` before the step holds it after
StaysIn(index, indexAfter, obj) ==
  \A key \in MapKeys(index) :
    obj \in BucketObjs(index, key) => obj \in BucketObjs(indexAfter, key)

\* C12: a storeEpisode call on a full store evicts the earliest-inserted
\* episode and nothing else: the other episodes stay in the sequence in their
\* order and stay in every day bucket and topic bucket they were in.
C12_EvictsOnlyEarliest ==
  [][(Len(episodicMemory) = MaxEpisodicMemory /\ nextObj' = nextObj + 1) =>
       /\ Len(episodicMemory') = MaxEpisodicMemory
       /\ SubSeq(episodicMemory', 1, MaxEpisodicMemory - 1) = Tail(episodicMemory)
       /\ \A e \in Range(Tail(episodicMemory)) :
            /\ StaysIn(memoryIndexes.episodicByDate, memoryIndexes'.episodicByDate, e.obj)
            /\ StaysIn(memoryIndexes.episodicByTopic, memoryIndexes'.episodicByTopic, e.obj)]_vars

\* C13: the episodes held in the store at the same time have pairwise
\* distinct identifiers.
C13_DistinctIds ==
  \A i, j \in 1..Len(episodicMemory) :
    i # j => episodicMemory[i].id # episodicMemory[j].id

\* C14: getEpisodesByTopic(t) returns exactly the episodes of the store whose
\* topics include t (none when there is no such episode), for supplied and
\* for derived topics.
C14_ByTopicExact ==
  \A topic \in Words :
    Objs(Range(GetEpisodesByTopic(memoryIndexes, topic)))
      = Objs({e \in Range(episodicMemory) : topic \in TopicsOf(e)})

\* C15: no bucket of the day index or of the topic index is empty.
C15_NoEmptyBucket ==
  \A bucket \in Buckets(memoryIndexes.episodicByDate) \cup Buckets(memoryIndexes.episodicByTopic) :
    bucket # <<>>

\* an eviction has removed the last episode of a day, and the key of that
\* day is gone from the day index
C15_Witness ==
  /\ Len(insertions) > MaxEpisodicMemory
  /\ \A i, j \in 1..Len(insertions) : i # j => insertions[i].id # insertions[j].id
  /\ \E e \in Range(Earliest) :
       DateKey(e.timestamp) \notin MapKeys(memoryIndexes.episodicByDate)

\* the position of a stored object in the ordered sequence
Pos(obj) == CHOOSE i \in 1..Len(episodicMemory) : episodicMemory[i].obj = obj

\* `a` comes before `b` in descending timestamp order, ties in insertion order
Before(a, b) ==
  \/ a.timestamp > b.timestamp
  \/ a.timestamp = b.timestamp /\ Pos(a.obj) < Pos(b.obj)

\* `recent` is the answer the claim describes for getRecentEpisodes(k)
IsRecent(recent, k) ==
  /\ Len(recent) = (IF k < Len(episodicMemory) THEN k ELSE Len(episodicMemory))
  /\ Range(recent) \subseteq Range(episodicMemory)
  /\ \A i, j \in 1..Len(recent) : i < j => Before(recent[i], recent[j])
  /\ \A e \in Range(episodicMemory) \ Range(recent) :
       \A x \in Range(recent) : Before(x, e)

\* C16: getRecentEpisodes(k) returns min(k, size) episodes, those with the
\* greatest timestamps, in descending timestamp order, the earlier-inserted
\* first among equal timestamps.
C16_RecentEpisodes ==
  \A k \in 0..(MaxEpisodicMemory + 1) : IsRecent(GetRecentEpisodes(episodicMemory, k), k)

\* the store is full and its episodes were inserted in ascending timestamp
\* order, so that the answer is not the insertion order
C16_Witness ==
  /\ Len(episodicMemory) = MaxEpisodicMemory
  /\ \A i \in 1..(Len(episodicMemory) - 1) :
       episodicMemory[i].timestamp < episodicMemory[i + 1].timestamp

\* `result` holds exactly the stored episodes with start <= timestamp <= end,
\* in descending timestamp order
IsDateRange(result, start, end) ==
  /\ Objs(Range(result))
       = Objs({e \in Range(episodicMemory) : start <= e.timestamp /\ e.timestamp <= end})
  /\ \A i, j \in 1..Len(result) : i < j => result[i].timestamp >= result[j].timestamp

\* C17: getEpisodesByDate(start, end) returns exactly the stored episodes
\* whose timestamp is in [start, end], in descending timestamp order, also
\* when start or end is in the middle of a day.
C17_ByDateRangeExact ==
  \A start, end \in 0..MaxNow :
    start <= end => IsDateRange(GetEpisodesByDate(memoryIndexes, start, end), start, end)

\* the episode of the latest storeEpisode call was stored without topics
LatestHadNoTopics ==
  /\ insertions # <<>>
  /\ episodicMemory # <<>>
  /\ episodicMemory[Len(episodicMemory)].obj = insertions[Len(insertions)].obj
  /\ ~insertions[Len(insertions)].supplied.topics

\* the topics derived for `episode` are at most 5 keywords, and the topic
\* index holds the episode under exactly those
IsDerived(episode) ==
  /\ IsDefined(episode.topics) => Len(Value(episode.topics)) <= 5
  /\ \A w \in TopicsOf(episode) : WordLength(w) > 4 /\ w \notin stopwords
  /\ {w \in Words : episode.obj \in BucketObjs(memoryIndexes.episodicByTopic, w)}
       = TopicsOf(episode)

\* C18: an episode stored without topics gets at most 5 derived topics in
\* total, each a keyword longer than 4 characters outside the stopword set,
\* and is indexed under exactly those topics, also when its perceived data
\* carries several text items.
C18_AtMostFiveDerivedTopics ==
  LatestHadNoTopics => IsDerived(episodicMemory[Len(episodicMemory)])

\* the episode objects the store references
Referenced ==
  Range(episodicMemory) \cup Held(memoryIndexes.episodicByDate)
                        \cup Held(memoryIndexes.episodicByTopic)

\* `e` has the id and timestamp recorded when it was stored, which are the
\* supplied ones where the caller supplied them
AsInserted(e, h) ==
  /\ h.obj = e.obj
  /\ h.id = e.id
  /\ h.timestamp = e.timestamp
  /\ h.supplied.id # Undefined => e.id = h.supplied.id
  /\ h.supplied.timestamp # 0 => e.timestamp = h.supplied.timestamp

\* C19: a stored episode keeps the identifier and the timestamp it had when
\* storeEpisode returned; storeEpisode assigns them only when absent, and
\* later stores and evictions leave them alone.
C19_IdAndTimestampImmutable ==
  \A e \in Referenced : \E i \in 1..Len(insertions) : AsInserted(e, insertions[i])

\* an episode stored with a supplied id and timestamp is still in the store
\* after a later call has evicted the episode before it
C19_Witness ==
  /\ Len(insertions) > MaxEpisodicMemory
  /\ Len(episodicMemory) = MaxEpisodicMemory
  /\ \E i \in 1..Len(insertions) :
       /\ insertions[i].obj = episodicMemory[1].obj
       /\ insertions[i].supplied.id # Undefined
       /\ insertions[i].supplied.timestamp # 0

\* the ids an episode of the model can have
Ids ==
  (SuppliedIds \ {Undefined})
    \cup {GeneratedId(t, r) : t \in 1..MaxNow, r \in 0..(RandomRange - 1)}

\* C20: getEpisode(id) returns the episode whose storeEpisode call returned
\* id while that episode is in the store, and null for an id whose episode was
\* evicted or cleared or that was never stored.
C20_GetEpisodeById ==
  /\ \A i \in 1..Len(insertions) :
       IF insertions[i].obj \in SequenceObjs
         THEN /\ GetEpisode(episodicMemory, insertions[i].id) # Undefined
              /\ Value(GetEpisode(episodicMemory, insertions[i].id)).obj = insertions[i].obj
         ELSE GetEpisode(episodicMemory, insertions[i].id) = Undefined
  /\ \A id \in Ids \ {insertions[i].id : i \in 1..Len(insertions)} :
       GetEpisode(episodicMemory, id) = Undefined

\* C21: clearAllMemory leaves the sequence, the day index and the topic index
\* empty together: in no state that a caller or listener can see is the
\* sequence empty while an index still has a bucket.
C21_ClearIsAtomic ==
  episodicMemory = <<>> =>
    /\ MapKeys(memoryIndexes.episodicByDate) = {}
    /\ MapKeys(memoryIndexes.episodicByTopic) = {}

\* the store has been cleared after episodes were stored
C21_Witness == nextObj > 1 /\ episodicMemory = <<>>

(***************************************************************************)
(* Event bus.  A callback is identified by the function and, for the       *)
(* closure created by one Agent.process call, by that call.                *)
(***************************************************************************)
Calls == 1..NumCalls

Callback(fn, call) == [fn |-> fn, call |-> call]

\* a registration at the front of the array
OnFirst(ls, event, callback) ==
  IF event \in DOMAIN ls
    THEN [ls EXCEPT ![event] = <<callback>> \o @]
    ELSE (event :> <<callback>>) @@ ls

\* a registration that pushes the callback twice
OnTwice(ls, event, callback) ==
  IF event \in DOMAIN ls
    THEN [ls EXCEPT ![event] = @ \o <<callback, callback>>]
    ELSE (event :> <<callback, callback>>) @@ ls

\* EventBus.on
On(ls, event, callback) ==
  IF event \in DOMAIN ls
    THEN [ls EXCEPT ![event] = Append(@, callback)]
    ELSE (event :> <<callback>>) @@ ls

\* an unsubscription that leaves the callback registered
OffKeeps(ls, event, callback) == ls

\* EventBus.off
Off(ls, event, callback) ==
  IF event \in DOMAIN ls
    THEN [ls EXCEPT ![event] = SelectSeq(@, LAMBDA cb : cb # callback)]
    ELSE ls

\* a clear that leaves the table as it is
ClearKeeps(ls) == ls

\* EventBus.clear: this.listeners = {}
Clear(ls) == <<>>

\* the callback raises synchronously when it is called
Raises(callback) == callback.fn \in {"raises", "observer"}

\* a dispatch that stops at the first callback that raises
Uncaught(callback, rest) == IF Raises(callback) THEN <<>> ELSE rest

\* try { callback(data) } catch (error) { console.error(...) }: whether or
\* not the callback raised, forEach goes on with the rest of the array
TryCatch(callback, rest) == rest

(***************************************************************************)
(* The bus driven directly by a client: listener functions `plain` (returns)*)
(* `raises` (raises synchronously), `once` (calls its own unsubscribe      *)
(* handle, then returns), `remover` (calls the handle of the registration  *)
(* made right after its own) and `adder` (registers a `plain` listener for *)
(* the event it is invoked for).                                           *)
(***************************************************************************)
Events == {"a", "b"}
ListenerFns == {"plain", "raises", "once", "remover", "adder"}
Payloads == {1, 2}

\* off(event, callback) seen on the registrations behind the array entries
OffRegistry(regs, event, callback) ==
  IF event \in DOMAIN regs
    THEN [regs EXCEPT ![event] = SelectSeq(@, LAMBDA entry : entry.callback # callback)]
    ELSE regs

\* one more invocation of an unsubscribe handle
Invoked(hs, reg) ==
  [hs EXCEPT ![reg].invoked = IF @ < MaxHandleCalls THEN @ + 1 ELSE @]

\* the bus during one emission, with the log of the callbacks invoked
BusState == [listeners |-> listeners, registry |-> registry, handles |-> handles, log |-> <<>>]

\* () => this.off(event, callback), the handle returned by on
Unsubscribed(bs, event, callback, reg) ==
  [bs EXCEPT !.listeners = Off(@, event, callback),
             !.registry = OffRegistry(@, event, callback),
             !.handles = Invoked(@, reg)]

\* callback(data)
Logged(bs, callback, reg, data) ==
  [bs EXCEPT !.log = Append(@, [reg |-> reg, fn |-> callback.fn, data |-> data])]

\* bus.on(event, fn): the callback pushed, the handle returned
Subscribed(bs, event, fn) ==
  IF Len(bs.handles) < MaxRegistrations
    THEN [bs EXCEPT
            !.listeners = On(@, event, Callback(fn, 0)),
            !.registry = On(@, event, [callback |-> Callback(fn, 0), reg |-> Len(bs.handles) + 1]),
            !.handles = Append(@, [event |-> event, fn |-> fn, invoked |-> 0, cleared |-> FALSE])]
    ELSE bs

\* the handle of the registration made right after registration `reg`
Removed(bs, reg) ==
  IF reg + 1 <= Len(bs.handles)
    THEN Unsubscribed(bs, bs.handles[reg + 1].event, Callback(bs.handles[reg + 1].fn, 0), reg + 1)
    ELSE bs

BusInvoke(bs, callback, reg, event, data) ==
  CASE callback.fn = "once" -> Unsubscribed(Logged(bs, callback, reg, data), event, callback, reg)
    [] callback.fn = "remover" -> Removed(Logged(bs, callback, reg, data), reg)
    [] callback.fn = "adder" -> Subscribed(Logged(bs, callback, reg, data), event, "plain")
    [] OTHER -> Logged(bs, callback, reg, data)

\* a forEach that reads the table again for every element
RECURSIVE BusForEachLive(_, _, _, _)
BusForEachLive(bs, i, event, data) ==
  IF i > Len(bs.listeners[event]) THEN bs
  ELSE BusForEachLive(BusInvoke(bs, bs.listeners[event][i], bs.registry[event][i].reg, event, data),
                      i + 1, event, data)

\* an emit that dispatches on the table as it is during the emission
BusEmitLive(bs, event, data) ==
  IF event \notin DOMAIN bs.listeners THEN bs
  ELSE BusForEachLive(bs, 1, event, data)

\* this.listeners[event].forEach(...): over the array as it is when emit starts
RECURSIVE BusForEach(_, _, _, _, _)
BusForEach(bs, callbacks, regs, event, data) ==
  IF callbacks = <<>> THEN bs
  ELSE BusForEach(BusInvoke(bs, Head(callbacks), Head(regs).reg, event, data),
                  TryCatch(Head(callbacks), Tail(callbacks)), Tail(regs), event, data)

\* EventBus.emit(event, data)
BusEmit(bs, event, data) ==
  IF event \notin DOMAIN bs.listeners THEN bs
  ELSE BusForEach(bs, bs.listeners[event], bs.registry[event], event, data)

\* the registrations of `event` behind the array, in array order
RegsOf(regs, event) ==
  IF event \in DOMAIN regs THEN [i \in 1..Len(regs[event]) |-> regs[event][i].reg] ELSE <<>>

\* the record of an emission that ended in the bus state `bs`
Emission(bs, event, data) ==
  [event |-> event, data |-> data,
   live |-> {h \in 1..Len(handles) : handles[h].invoked = 0 /\ ~handles[h].cleared},
   cleared |-> {h \in 1..Len(handles) : handles[h].cleared},
   snapshot |-> RegsOf(registry, event),
   removed |-> {h \in 1..Len(handles) : bs.handles[h].invoked > handles[h].invoked},
   added |-> (Len(handles) + 1)..Len(bs.handles),
   log |-> bs.log,
   returned |-> Len(bs.log) = Len(RegsOf(registry, event))]

nonBusVars == <<workingMemory, episodicMemory, memoryIndexes, now, nextObj, insertions,
                microtasks, ioPending, llmService, calls, signals, errors, raised, completions,
                unitVars, agent, queried>>

\* const handle = bus.on(event, fn)
Subscribe ==
  /\ Len(handles) < MaxRegistrations
  /\ \E event \in Events, fn \in ListenerFns :
       \E bs \in {Subscribed(BusState, event, fn)} :
         /\ listeners' = bs.listeners
         /\ registry' = bs.registry
         /\ handles' = bs.handles
  /\ emission' = NoEmission
  /\ UNCHANGED nonBusVars

\* handle()
Unsubscribe ==
  /\ \E reg \in 1..Len(handles) :
       /\ handles[reg].invoked < MaxHandleCalls
       /\ \E bs \in {Unsubscribed(BusState, handles[reg].event,
                                  Callback(handles[reg].fn, 0), reg)} :
            /\ listeners' = bs.listeners
            /\ registry' = bs.registry
            /\ handles' = bs.handles
  /\ emission' = NoEmission
  /\ UNCHANGED nonBusVars

\* bus.emit(event, data)
EmitCall ==
  /\ \E event \in Events, data \in Payloads :
       \E bs \in {BusEmit(BusState, event, data)} :
         /\ listeners' = bs.listeners
         /\ registry' = bs.registry
         /\ handles' = bs.handles
         /\ emission' = Emission(bs, event, data)
  /\ UNCHANGED nonBusVars

\* bus.clear()
ClearCall ==
  /\ \E h \in 1..Len(handles) : ~handles[h].cleared
  /\ listeners' = Clear(listeners)
  /\ registry' = Clear(registry)
  /\ handles' = [h \in 1..Len(handles) |-> [handles[h] EXCEPT !.cleared = TRUE]]
  /\ emission' = NoEmission
  /\ UNCHANGED nonBusVars

BusInit == StoreInit

BusNext == Subscribe \/ Unsubscribe \/ EmitCall \/ ClearCall

BusSpec == BusInit /\ [][BusNext]_vars

(***************************************************************************)
(* ActionSystem.execute driven by a client.  A plan is null, undefined, a  *)
(* string, an object that is no array, or an array of steps; a step is an  *)
(* object that names its action, an object that does not (the action is    *)
(* then 'unknown'), or null or undefined, on which the parameter           *)
(* destructuring of _executeAction raises a TypeError.                     *)
(***************************************************************************)
StepKinds == {"named", "unnamed", "null", "undefined"}

RECURSIVE StepsUpTo(_)
StepsUpTo(n) ==
  IF n = 0 THEN {<<>>}
  ELSE StepsUpTo(n - 1) \cup {Append(steps, kind) : steps \in StepsUpTo(n - 1), kind \in StepKinds}

Plans ==
  {[kind |-> kind, steps |-> <<>>] : kind \in {"null", "undefined", "string", "object"}}
    \cup {[kind |-> "array", steps |-> steps] : steps \in StepsUpTo(MaxPlanLength)}

\* !plan || !Array.isArray(plan)
InvalidPlan(plan) == plan.kind # "array"

\* `const { action = 'unknown' } = parameters` raises on null and undefined
StepRaises(step) == step \in {"null", "undefined"}

\* the value `execute` settles its promise with
ActionResult(success, error, failedStep, partialResults, results) ==
  [raised |-> FALSE, success |-> success, error |-> error, failedStep |-> failedStep,
   partialResults |-> partialResults, results |-> results]

\* an execute that lets the error of a step reach its caller
Rethrow(context, error) ==
  [raised |-> TRUE, success |-> FALSE, error |-> error, failedStep |-> Undefined,
   partialResults |-> Undefined, results |-> Undefined]

\* catch (error) { return this._handleExecutionError(error, context) }
HandleExecutionError(context, error) ==
  ActionResult(FALSE, error, Some(context.currentStep), Some(context.results), Undefined)

\* return { success: false, error: 'Invalid action plan' }
InvalidPlanResult == ActionResult(FALSE, "Invalid action plan", Undefined, Undefined, Undefined)

\* return { success: context.success, results: context.results, ... }
CompleteResult(context) == ActionResult(TRUE, "", Undefined, Undefined, Some(context.results))

\* execute has returned: its promise is settled with `result`
Returned(context, result) ==
  [context EXCEPT !.pc = "returned", !.settled = "", !.result = Some(result)]

\* context.currentStep++; await this._executeAction(action, context): the
\* async method has run, execute is suspended on the promise it returned
AwaitStep(context) ==
  [context EXCEPT !.pc = "awaiting",
                  !.currentStep = @ + 1,
                  !.settled = IF StepRaises(context.plan.steps[context.currentStep + 1])
                                THEN "rejected" ELSE "fulfilled"]

\* for (const action of plan) { ... }, then the return after the loop
NextStep(context) ==
  IF context.currentStep < Len(context.plan.steps)
    THEN AwaitStep(context)
    ELSE Returned(context, CompleteResult(context))

\* const context = { results: {}, currentStep: 0, ... }
ExecutionContext(plan) == [NoExecution EXCEPT !.plan = plan]

coreVars == <<listeners, workingMemory, episodicMemory, memoryIndexes, now, nextObj,
              insertions, microtasks, ioPending, llmService, calls, signals, errors, raised,
              completions, busVars, agent, queried>>

actionVars == <<coreVars, cognition, config>>

\* actionSystem.execute(plan), up to its first suspension or its return
ExecuteCall ==
  /\ execution.pc \in {"idle", "returned"}
  /\ \E plan \in Plans :
       execution' = IF InvalidPlan(plan)
                      THEN Returned(ExecutionContext(plan), InvalidPlanResult)
                      ELSE NextStep(ExecutionContext(plan))
  /\ UNCHANGED actionVars

\* execute resumes from `await this._executeAction(action, context)`
ExecuteResume ==
  /\ execution.pc = "awaiting"
  /\ execution' = IF execution.settled = "rejected"
                    THEN Returned(execution, HandleExecutionError(execution, "TypeError"))
                    ELSE NextStep(execution)
  /\ UNCHANGED actionVars

ActionInit == StoreInit

ActionNext == ExecuteCall \/ ExecuteResume

ActionSpec == ActionInit /\ [][ActionNext]_vars

(***************************************************************************)
(* The cognitive system driven directly: CognitiveSystem.process with the  *)
(* rule-based modules and the LLM service as collaborators that can fail.  *)
(* `analysis` and `plan` are "initial" for what analyze and createPlan     *)
(* return and "enhanced" for what an enhanceWithLLM adds to.               *)
(***************************************************************************)
\* how a call of a collaborator ends: it raises, or it returns (a promise
\* that resolves or rejects)
RuleOutcomes == {"returns", "raises"}
LLMOutcomes == {"resolves", "rejects", "raises"}

\* Component.emit on the agent's bus, as the history of the process call
Emitted(c, event) == [c EXCEPT !.signals = Append(@, event)]

\* history: `what` failed during the process call
Failed(c, what) == [c EXCEPT !.failed = @ \cup {what}]

\* the run suspends at the await `pc` on a promise that settles as `promise`
Awaiting(c, pc, promise) == [c EXCEPT !.pc = pc, !.settled = promise]

\* an enhanceReasoning / generatePlan whose catch rethrows
LLMErrorRethrown(c, pc, phase, initial) == Awaiting(c, pc, Rejected("LLMError"))

\* ReasoningModule / PlanningModule enhanceWithLLM: catch (error) { return initial }
ModuleCatch(initial) == Resolved(initial)

\* enhanceReasoning / generatePlan:
\* catch (error) { this.emit('cognition:llm:error', ...); return initial }
LLMErrorCaught(c, pc, phase, initial) ==
  Awaiting(Emitted(c, "cognition:llm:error"), pc, Resolved(initial))

\* process: catch (error) { this.emit('cognition:process:error', ...); throw error }
ProcessCatch(c) ==
  [Emitted(c, "cognition:process:error") EXCEPT
     !.pc = "returned", !.settled = NoSettled, !.outcome = "rejected", !.result = Undefined]

\* the built-in module calls `await this.llmService.<method>(...)` in its try
\* block: the module suspends at `pc`, or the call raises and the module
\* returns from its catch to the await `caller`
CallLLM(c, pc, caller, phase, initial, how) ==
  CASE how = "raises" -> Awaiting(Failed(c, phase), caller, ModuleCatch(initial))
    [] how = "rejects" -> Awaiting(Failed(c, phase), pc, Rejected("LLMError"))
    [] OTHER -> Awaiting(c, pc, Resolved("reply"))

\* a module set by setReasoningModule / setPlanningModule: its
\* enhanceWithLLM raises, or returns a promise that resolves or rejects
CallCustom(c, moduleAwait, callerAwait, phase, initial, how) ==
  CASE how = "raises" -> LLMErrorCaught(Failed(c, phase), callerAwait, phase, initial)
    [] how = "rejects" -> Awaiting(Failed(c, phase), moduleAwait, Rejected("LLMError"))
    [] OTHER -> Awaiting(c, moduleAwait, Resolved("enhanced"))

\* enhanceReasoning(perceivedData, initialAnalysis), up to its suspension
\* or its return
EnhanceReasoningCall(c, how) ==
  IF ~c.llmService THEN Awaiting(c, "enhanceReasoning", Resolved(c.analysis))
  ELSE IF c.reasoningModule.kind = "custom"
    THEN CallCustom(c, "reasoningModule", "enhanceReasoning", "reasoningLLM", c.analysis, how)
  ELSE IF ~c.reasoningModule.llmService
    THEN Awaiting(c, "reasoningModule", Resolved(c.analysis))
  ELSE CallLLM(c, "reason", "reasoningModule", "reasoningLLM", c.analysis, how)

\* generatePlan(reasoningResults, initialPlan), up to its suspension or its
\* return
GeneratePlanCall(c, how) ==
  IF ~c.llmService THEN Awaiting(c, "generatePlan", Resolved(c.plan))
  ELSE IF c.planningModule.kind = "custom"
    THEN CallCustom(c, "planningModule", "generatePlan", "planningLLM", c.plan, how)
  ELSE IF ~c.planningModule.llmService
    THEN Awaiting(c, "planningModule", Resolved(c.plan))
  ELSE CallLLM(c, "plan", "planningModule", "planningLLM", c.plan, how)

\* process, from its first line to `await this.enhanceReasoning(...)`
ProcessCalled(c, analyze, how) ==
  IF analyze = "raises"
    THEN ProcessCatch(Failed(Emitted(c, "cognition:process:start"), "analyze"))
    ELSE EnhanceReasoningCall(
           Emitted(Emitted([c EXCEPT !.analysis = "initial"], "cognition:process:start"),
                   "cognition:reasoning:initial"),
           how)

\* process, from the return of `await this.enhanceReasoning(...)` to
\* `await this.generatePlan(...)`
ReasoningCompleted(c, createPlan, how) ==
  IF c.settled.state = "rejected" THEN ProcessCatch(c)
  ELSE IF createPlan = "raises"
    THEN ProcessCatch(Failed(Emitted([c EXCEPT !.analysis = c.settled.value],
                                     "cognition:reasoning:complete"), "createPlan"))
    ELSE GeneratePlanCall(
           Emitted(Emitted([c EXCEPT !.analysis = c.settled.value, !.plan = "initial"],
                           "cognition:reasoning:complete"),
                   "cognition:planning:initial"),
           how)

\* process, from the return of `await this.generatePlan(...)` to its return
PlanningCompleted(c) ==
  IF c.settled.state = "rejected" THEN ProcessCatch(c)
  ELSE [Emitted(Emitted([c EXCEPT !.plan = c.settled.value], "cognition:planning:complete"),
                "cognition:process:complete") EXCEPT
          !.pc = "returned", !.settled = NoSettled, !.outcome = "resolved",
          !.result = Some([analysis |-> c.analysis, plan |-> c.settled.value])]

\* a process call starts with the histories of the call empty
NewCall(c) ==
  [c EXCEPT !.analysis = "none", !.plan = "none", !.settled = NoSettled,
            !.signals = <<>>, !.failed = {}, !.outcome = "", !.result = Undefined]

cognitionVars == <<coreVars, execution, config>>

AtRest == cognition.pc \in {"idle", "returned"}

\* cognitiveSystem.setLLMService(service)
SetLLMService ==
  /\ AtRest
  /\ ~cognition.llmService
  /\ cognition' = [cognition EXCEPT !.llmService = TRUE,
                                     !.reasoningModule.llmService = TRUE,
                                     !.planningModule.llmService = TRUE]
  /\ UNCHANGED cognitionVars

\* cognitiveSystem.setReasoningModule(module)
SetReasoningModule ==
  /\ AtRest
  /\ cognition.reasoningModule.kind = "builtin"
  /\ cognition' = [cognition EXCEPT !.reasoningModule =
                     [kind |-> "custom", llmService |-> cognition.llmService]]
  /\ UNCHANGED cognitionVars

\* cognitiveSystem.setPlanningModule(module)
SetPlanningModule ==
  /\ AtRest
  /\ cognition.planningModule.kind = "builtin"
  /\ cognition' = [cognition EXCEPT !.planningModule =
                     [kind |-> "custom", llmService |-> cognition.llmService]]
  /\ UNCHANGED cognitionVars

\* cognitiveSystem.process(perceivedData), up to its first suspension or
\* its return
CognitionProcessCall ==
  /\ AtRest
  /\ \E analyze \in RuleOutcomes, how \in LLMOutcomes :
       cognition' = ProcessCalled(NewCall(cognition), analyze, how)
  /\ UNCHANGED cognitionVars

\* ReasoningModule.enhanceWithLLM resumes from `await this.llmService.reason(...)`
ReasonResume ==
  /\ cognition.pc = "reason"
  /\ cognition' = Awaiting(cognition, "reasoningModule",
                           IF cognition.settled.state = "rejected"
                             THEN ModuleCatch(cognition.analysis)
                             ELSE Resolved("enhanced"))
  /\ UNCHANGED cognitionVars

\* enhanceReasoning resumes from `await this.reasoningModule.enhanceWithLLM(...)`
EnhanceReasoningResume ==
  /\ cognition.pc = "reasoningModule"
  /\ cognition' = IF cognition.settled.state = "rejected"
                     THEN LLMErrorCaught(cognition, "enhanceReasoning", "reasoningLLM",
                                         cognition.analysis)
                     ELSE Awaiting(cognition, "enhanceReasoning", cognition.settled)
  /\ UNCHANGED cognitionVars

\* process resumes from `await this.enhanceReasoning(...)`
ReasoningComplete ==
  /\ cognition.pc = "enhanceReasoning"
  /\ \E createPlan \in RuleOutcomes, how \in LLMOutcomes :
       cognition' = ReasoningCompleted(cognition, createPlan, how)
  /\ UNCHANGED cognitionVars

\* PlanningModule.enhanceWithLLM resumes from `await this.llmService.plan(...)`
\* and calls `await this.llmService.evaluate(...)`
PlanResume ==
  /\ cognition.pc = "plan"
  /\ \E how \in LLMOutcomes :
       cognition' = IF cognition.settled.state = "rejected"
                      THEN Awaiting(cognition, "planningModule", ModuleCatch(cognition.plan))
                      ELSE CallLLM(cognition, "evaluate", "planningModule", "planningLLM",
                                   cognition.plan, how)
  /\ UNCHANGED cognitionVars

\* PlanningModule.enhanceWithLLM resumes from `await this.llmService.evaluate(...)`
EvaluateResume ==
  /\ cognition.pc = "evaluate"
  /\ cognition' = Awaiting(cognition, "planningModule",
                           IF cognition.settled.state = "rejected"
                             THEN ModuleCatch(cognition.plan)
                             ELSE Resolved("enhanced"))
  /\ UNCHANGED cognitionVars

\* generatePlan resumes from `await this.planningModule.enhanceWithLLM(...)`
GeneratePlanResume ==
  /\ cognition.pc = "planningModule"
  /\ cognition' = IF cognition.settled.state = "rejected"
                     THEN LLMErrorCaught(cognition, "generatePlan", "planningLLM",
                                         cognition.plan)
                     ELSE Awaiting(cognition, "generatePlan", cognition.settled)
  /\ UNCHANGED cognitionVars

\* process resumes from `await this.generatePlan(...)`
PlanningComplete ==
  /\ cognition.pc = "generatePlan"
  /\ cognition' = PlanningCompleted(cognition)
  /\ UNCHANGED cognitionVars

CognitionInit == StoreInit

CognitionNext ==
  \/ SetLLMService
  \/ SetReasoningModule
  \/ SetPlanningModule
  \/ CognitionProcessCall
  \/ ReasonResume
  \/ EnhanceReasoningResume
  \/ ReasoningComplete
  \/ PlanResume
  \/ EvaluateResume
  \/ GeneratePlanResume
  \/ PlanningComplete

CognitionSpec == CognitionInit /\ [][CognitionNext]_vars

(***************************************************************************)
(* Config driven directly through set and setValidator.  A path is the     *)
(* sequence path.split('.').                                               *)
(***************************************************************************)
ConfigKeys == {"a", "b"}
ConfigValues == {"low", "high"}
ValidatorFns == {"mustBeLow", "mustBeHigh"}

RECURSIVE PathsOfLength(_)
PathsOfLength(n) ==
  IF n = 1 THEN {<<k>> : k \in ConfigKeys}
  ELSE {Append(p, k) : p \in PathsOfLength(n - 1), k \in ConfigKeys}

ConfigPaths == UNION {PathsOfLength(n) : n \in 1..MaxPathLength}

\* the paths setValidator is called with
ValidatedPaths == {<<"a">>, <<"a", "b">>}

\* validatorFn(value): true, or the message the validator returns
Validate(validatorFn, value) ==
  IF validatorFn = "mustBeLow" THEN value = "low" ELSE value = "high"

IsPrefix(p, q) == Len(p) <= Len(q) /\ SubSeq(q, 1, Len(p)) = p

\* current[lastPart] = value: the property at `path` holds `value`, and what
\* the replaced value held is no longer reachable
Assigned(tree, path, value) ==
  [q \in {q \in DOMAIN tree : ~IsPrefix(path, q)} \cup {path} |->
     IF q = path THEN value ELSE tree[q]]

\* the loop of set: `if (!(part in current)) current[part] = {}` for parts
\* i..length-2 (counted from 1 here); `in` raises a TypeError on a primitive
RECURSIVE CreateIntermediates(_, _, _)
CreateIntermediates(tree, parts, i) ==
  IF i > Len(parts) - 1 THEN [config |-> tree, raised |-> ""]
  ELSE IF i > 1 /\ tree[SubSeq(parts, 1, i - 1)] # "object"
    THEN [config |-> tree, raised |-> "TypeError"]
  ELSE CreateIntermediates(
         IF SubSeq(parts, 1, i) \in DOMAIN tree
           THEN tree ELSE Assigned(tree, SubSeq(parts, 1, i), "object"),
         parts, i + 1)

\* set, after the loop has left `walked`: the validator of the path, then
\* the assignment (class code is strict: assigning a property of a
\* primitive raises a TypeError)
ValidatedAssign(walked, validators, path, value) ==
  IF walked.raised # "" THEN walked
  ELSE IF path \in DOMAIN validators /\ ~Validate(validators[path], value)
    THEN [config |-> walked.config, raised |-> "Error"]
  ELSE IF Len(path) > 1 /\ walked.config[SubSeq(path, 1, Len(path) - 1)] # "object"
    THEN [config |-> walked.config, raised |-> "TypeError"]
  ELSE [config |-> Assigned(walked.config, path, value), raised |-> ""]

\* set(path, value)
ConfigSet(tree, validators, path, value) ==
  ValidatedAssign(CreateIntermediates(tree, path, 1), validators, path, value)

configVars == <<coreVars, execution, cognition>>

\* config.set(path, value)
SetCall ==
  /\ \E path \in ConfigPaths, value \in ConfigValues :
       \E done \in {ConfigSet(config.config, config.validators, path, value)} :
         config' = [config EXCEPT
                      !.config = done.config,
                      !.set = [path |-> path, value |-> value, raised |-> done.raised,
                               before |-> config.config]]
  /\ UNCHANGED configVars

\* config.setValidator(path, validatorFn)
SetValidatorCall ==
  /\ \E path \in ValidatedPaths, validatorFn \in ValidatorFns :
       config' = [config EXCEPT
                    !.validators = [q \in DOMAIN @ \cup {path} |->
                                      IF q = path THEN validatorFn ELSE @[q]],
                    !.set = NoSet]
  /\ UNCHANGED configVars

ConfigInit == StoreInit

ConfigNext == SetCall \/ SetValidatorCall

ConfigSpec == ConfigInit /\ [][ConfigNext]_vars

(***************************************************************************)
(* The state threaded through one synchronous run of code.                 *)
(***************************************************************************)
Current ==
  [listeners |-> listeners, workingMemory |-> workingMemory,
   episodicMemory |-> episodicMemory, memoryIndexes |-> memoryIndexes,
   now |-> now, nextObj |-> nextObj, insertions |-> insertions,
   microtasks |-> microtasks, ioPending |-> ioPending,
   calls |-> calls, signals |-> signals, errors |-> errors, raised |-> raised,
   completions |-> completions]

Becomes(st) ==
  /\ listeners' = st.listeners
  /\ workingMemory' = st.workingMemory
  /\ episodicMemory' = st.episodicMemory
  /\ memoryIndexes' = st.memoryIndexes
  /\ now' = st.now
  /\ nextObj' = st.nextObj
  /\ insertions' = st.insertions
  /\ microtasks' = st.microtasks
  /\ ioPending' = st.ioPending
  /\ calls' = st.calls
  /\ signals' = st.signals
  /\ errors' = st.errors
  /\ raised' = st.raised
  /\ completions' = st.completions
  /\ UNCHANGED <<llmService, busVars, unitVars, agent, queried>>

\* the run leaves the program in the state `result`
Commit(result) == \E st \in {result} : Becomes(st)

\* a suspended continuation: the await it resumes, the call whose data it
\* carries, the emission of perception:complete that started its chain
\* ("system" by PerceptionSystem.process, "agent" by Agent.process), whether
\* the awaited promise was fulfilled, and the shape of the plan it carries
Task(kind, call, via, ok, plan) ==
  [kind |-> kind, call |-> call, via |-> via, ok |-> ok, plan |-> plan]

\* the error object raised by a collaborator during a call
Error(stage, call) == [stage |-> stage, call |-> call]

\* a collaborator raises
Raise(st, stage, call) == [st EXCEPT !.raised = @ \cup {Error(stage, call)}]

\* a continuation resumed at any later time, in no order
EnqueueUnordered(st, task) == [st EXCEPT !.ioPending = @ \cup {task}]

\* `await p` on a promise that is already settled: one promise job
Enqueue(st, task) == [st EXCEPT !.microtasks = Append(@, task)]

\* `await p`: resumed by a promise job, or after an I/O completion
Suspend(st, task, io) ==
  IF io THEN [st EXCEPT !.ioPending = @ \cup {task}] ELSE Enqueue(st, task)

\* the choices made by the environment during one run: the chain the run
\* belongs to, whether the collaborator called raises, the value of Date.now()
\* during the run (one value: a run is synchronous) and of Math.random()
Choice(via, raise, t, r) ==
  [via |-> via, raise |-> raise, t |-> t, r |-> r]

(***************************************************************************)
(* Memory system methods used by the agent.                                *)
(***************************************************************************)
AddToWorkingMemory(st, key, value) ==
  [st EXCEPT !.workingMemory = MapSet(@, key, value)]

\* null is the payload without content
GetFromWorkingMemory(memory, key) ==
  IF MapHas(memory, key) THEN MapGet(memory, key)
  ELSE IF key = "perceivedData" THEN NoData ELSE NoCognitiveResult

(***************************************************************************)
(* Collaborators, up to their first suspension.                            *)
(***************************************************************************)
\* CognitiveSystem.process(perceivedData) called and awaited by the
\* perception:complete listener: analyze raises (the returned promise is
\* rejected), or the call suspends in `await this.enhanceReasoning(...)`
CognitiveProcess(st, perceivedData, ch) ==
  IF ch.raise
    THEN Enqueue(Raise(st, "cognition", perceivedData.raw),
                 Task("cognitionReturn", perceivedData.raw, ch.via, FALSE, "object"))
    ELSE Suspend(st, Task("enhanceReasoning", perceivedData.raw, ch.via, TRUE, "object"), llmService)

\* ActionSystem.execute(plan) called and awaited by the cognition:complete
\* listener: a plan that is not an array returns success=false at once,
\* otherwise the call suspends in `await this._executeAction(action, context)`,
\* an async method that awaits nothing (plans have one step here)
Execute(st, cognitiveResult, ch) ==
  IF cognitiveResult.plan # "steps"
    THEN Enqueue(st, Task("actionReturn", cognitiveResult.src, ch.via, FALSE, cognitiveResult.plan))
    ELSE Enqueue(st, Task("executeAction", cognitiveResult.src, ch.via, TRUE, cognitiveResult.plan))

(***************************************************************************)
(* EventBus.emit and the listeners of the agent.                           *)
(***************************************************************************)
CycleSignals ==
  <<"cycle:start", "perception:complete", "cognition:complete", "action:complete", "cycle:complete">>

\* the call whose cycle a published payload belongs to
SignalCall(event, data) ==
  CASE event = "cycle:start" -> data.input
    [] event = "perception:complete" -> data.raw
    [] event = "cognition:complete" -> data.src
    [] event = "action:complete" -> data.src
    [] event = "cycle:complete" -> data.actionResult.src
    [] OTHER -> 0

\* what the store holds of `episode` when the episode is published (at =
\* "published") or handed to the caller of `call` (at = "resolved"), and the
\* state of the call whose cycle assembled the episode
Completion(st, at, call, episode) ==
  [at |-> at, call |-> call, obj |-> episode.obj,
   state |-> st.calls[episode.actionResult.src].state,
   appended |-> episode.obj \in Objs(Range(st.episodicMemory)),
   dated |-> episode.obj \in BucketObjs(st.memoryIndexes.episodicByDate,
                                        DateKey(episode.timestamp)),
   topical |-> \A topic \in TopicsOf(episode) :
                 episode.obj \in BucketObjs(st.memoryIndexes.episodicByTopic, topic)]

\* history of the publications
Published(st, event, data) ==
  IF event = "error" THEN [st EXCEPT !.errors = Append(@, data)]
  ELSE IF event = "cycle:complete"
    THEN [st EXCEPT !.signals[SignalCall(event, data)] = Append(@, event),
                    !.completions = @ \cup {Completion(st, "published", 0, data)}]
  ELSE IF SignalCall(event, data) \in DOMAIN st.signals
    THEN [st EXCEPT !.signals[SignalCall(event, data)] = Append(@, event)]
  ELSE st

\* a completion listener that resolves its caller and stays registered
ResolvedOnly(st, callback, result) ==
  [st EXCEPT !.calls[callback.call] =
                [state |-> "resolved", settled |-> @.settled + 1, result |-> Some(result)],
             !.completions = @ \cup {Completion(st, "resolved", callback.call, result)}]

\* Agent.process: the listener of cycle:complete created by one call
OnCycleComplete(st, callback, result) ==
  [st EXCEPT !.listeners = Off(@, "cycle:complete", callback),
             !.calls[callback.call] =
                [state |-> "resolved", settled |-> @.settled + 1, result |-> Some(result)],
             !.completions = @ \cup {Completion(st, "resolved", callback.call, result)}]

\* callback(data), for the listeners that publish nothing themselves
InvokeLast(st, callback, data) ==
  CASE callback.fn = "cycleComplete" -> OnCycleComplete(st, callback, data)
    [] OTHER -> st

RECURSIVE ForEachLast(_, _, _)
ForEachLast(st, callbacks, data) ==
  IF callbacks = <<>> THEN st
  ELSE ForEachLast(InvokeLast(st, Head(callbacks), data),
                   TryCatch(Head(callbacks), Tail(callbacks)), data)

\* EventBus.emit of cycle:start, cycle:complete and error, whose listeners
\* publish nothing themselves
EmitLast(st, event, data) ==
  LET published == Published(st, event, data)
  IN  IF event \notin DOMAIN published.listeners THEN published
      ELSE ForEachLast(published, published.listeners[event], data)

\* Agent._setupEventListeners: listener of perception:complete
OnPerceptionComplete(st, perceivedData, ch) ==
  CognitiveProcess(AddToWorkingMemory(st, "perceivedData", perceivedData), perceivedData, ch)

\* Agent._setupEventListeners: listener of cognition:complete
OnCognitionComplete(st, cognitiveResult, ch) ==
  Execute(AddToWorkingMemory(st, "cognitiveResult", cognitiveResult), cognitiveResult, ch)

\* Agent._setupEventListeners: listener of action:complete
\* the state after this.memorySystem.storeEpisode(episode) has returned `stored`
Remembered(st, stored, t) ==
  [st EXCEPT !.episodicMemory = stored.episodicMemory,
             !.memoryIndexes = stored.memoryIndexes,
             !.insertions = Append(@, Inserted(stored)),
             !.nextObj = @ + 1,
             !.now = t]

\* storeEpisode(episode); emit('cycle:complete', episode)
Remember(st, stored, t) ==
  EmitLast(Remembered(st, stored, t), "cycle:complete", stored.episode)

OnActionComplete(st, actionResult, ch) ==
  Remember(st,
           StoreEpisode(st.episodicMemory, st.memoryIndexes,
                        [obj |-> st.nextObj, id |-> Undefined, timestamp |-> ch.t,
                         topics |-> Undefined,
                         perceivedData |-> GetFromWorkingMemory(st.workingMemory, "perceivedData"),
                         cognitiveResult |-> GetFromWorkingMemory(st.workingMemory, "cognitiveResult"),
                         actionResult |-> actionResult],
                        ch.t, ch.r),
           ch.t)

\* callback(data)
Invoke(st, callback, data, ch) ==
  CASE callback.fn = "perceptionComplete" -> OnPerceptionComplete(st, data, ch)
    [] callback.fn = "cognitionComplete" -> OnCognitionComplete(st, data, ch)
    [] callback.fn = "actionComplete" -> OnActionComplete(st, data, ch)
    [] OTHER -> InvokeLast(st, callback, data)

\* this.listeners[event].forEach(...): over the array as it is when emit starts
RECURSIVE ForEach(_, _, _, _)
ForEach(st, callbacks, data, ch) ==
  IF callbacks = <<>> THEN st
  ELSE ForEach(Invoke(st, Head(callbacks), data, ch),
               TryCatch(Head(callbacks), Tail(callbacks)), data, ch)

\* EventBus.emit
Emit(st, event, data, ch) ==
  LET published == Published(st, event, data)
  IN  IF event \notin DOMAIN published.listeners THEN published
      ELSE ForEach(published, published.listeners[event], data, ch)

(***************************************************************************)
(* The agent: construction and the runs of one processing cycle.           *)
(***************************************************************************)
\* Agent._setupEventListeners: the table after construction
AgentListeners ==
  [event \in {"perception:complete", "cognition:complete", "action:complete"} |->
     IF event = "perception:complete" THEN <<Callback("perceptionComplete", 0)>>
     ELSE IF event = "cognition:complete" THEN <<Callback("cognitionComplete", 0)>>
     ELSE <<Callback("actionComplete", 0)>>]

\* agent.eventBus.on(signal, observer) for every cycle signal, by a client
\* whose observer raises each time it is called
RECURSIVE Observed(_, _)
Observed(ls, events) ==
  IF events = <<>> THEN ls
  ELSE Observed(On(ls, Head(events), Callback("observer", 0)), Tail(events))

\* new Agent(config): _setupEventListeners has run; a client may have
\* registered its observer before the first call of process
Init ==
  /\ queried = NoQuery
  /\ listeners \in {AgentListeners, Observed(AgentListeners, CycleSignals)}
  /\ workingMemory = <<>>
  /\ episodicMemory = <<>>
  /\ memoryIndexes = InitializeIndexes
  /\ now = 1
  /\ nextObj = 1
  /\ insertions = <<>>
  /\ microtasks = <<>>
  /\ ioPending = {}
  /\ llmService \in BOOLEAN
  /\ calls = [c \in Calls |-> [state |-> "idle", settled |-> 0, result |-> Undefined]]
  /\ signals = [c \in Calls |-> <<>>]
  /\ errors = <<>>
  /\ raised = {}
  /\ completions = {}
  /\ NoBusClient
  /\ NoUnits
  /\ agent = [initialized |-> TRUE, initializeCalls |-> 0]

NoChoice(via) == Choice(via, FALSE, now, 0)

\* The continuations that can run next: the promise job at the head of the
\* queue or, when no promise job is left, the continuation of any await whose
\* I/O completes (the event loop delivers the completion, which resolves the
\* awaited promise).
Ready == IF microtasks # <<>> THEN {Head(microtasks)} ELSE ioPending
Jobs(kind) == {job \in Ready : job.kind = kind}
Taken(job) ==
  IF microtasks # <<>> THEN [Current EXCEPT !.microtasks = Tail(@)]
  ELSE [Current EXCEPT !.ioPending = @ \ {job}]

\* agent.process(input), up to the first suspension inside
\* PerceptionSystem.process (`await sensor.process(input)`)
StartCall(c) ==
  /\ calls[c].state = "idle"
  /\ \A earlier \in 1..(c - 1) : calls[earlier].state # "idle"
  /\ \E io \in BOOLEAN :
       LET started == EmitLast(Current, "cycle:start", [input |-> c])
           awaiting == [started EXCEPT !.calls[c].state = "perceiving"]
       IN  Commit(Suspend(awaiting, Task("perception", c, "", TRUE, "object"), io))

\* PerceptionSystem.process resumes: a sensor or a preprocessor raises, or the
\* system emits perception:complete and returns the perceived data
Perception ==
  \E job \in Jobs("perception") :
    \/ Commit(Enqueue(Raise(Taken(job), "perception", job.call),
                       Task("processResume", job.call, "", FALSE, "object")))
    \/ \E raise \in BOOLEAN :
         LET emitted == Emit(Taken(job), "perception:complete", PerceivedData(job.call),
                             Choice("system", raise, now, 0))
         IN  Commit(Enqueue(emitted, Task("processResume", job.call, "", TRUE, "object")))

\* Agent.process resumes from `await this.perceptionSystem.process(input)`
ProcessResume ==
  \E job \in Jobs("processResume") :
    IF job.ok
      THEN \E raise \in BOOLEAN :
             LET emitted == Emit(Taken(job), "perception:complete", PerceivedData(job.call),
                                 Choice("agent", raise, now, 0))
             IN  Commit([emitted EXCEPT
                   !.listeners = On(@, "cycle:complete", Callback("cycleComplete", job.call)),
                   !.calls[job.call].state = "pending"])
      ELSE LET error == Error("perception", job.call)
               emitted == EmitLast(Taken(job), "error", [phase |-> "process", error |-> error])
           IN  Commit([emitted EXCEPT !.calls[job.call] =
                          [state |-> "rejected", settled |-> @.settled + 1,
                           result |-> Some(error)]])

\* CognitiveSystem.process resumes from `await this.enhanceReasoning(...)`:
\* createPlan raises, or the call suspends in `await this.generatePlan(...)`
EnhanceReasoning ==
  \E job \in Jobs("enhanceReasoning") :
    \/ Commit(Enqueue(Raise(Taken(job), "cognition", job.call),
                       Task("cognitionReturn", job.call, job.via, FALSE, "object")))
    \/ Commit(Suspend(Taken(job), Task("generatePlan", job.call, job.via, TRUE, "object"),
                      llmService))

\* CognitiveSystem.process resumes from `await this.generatePlan(...)` and
\* returns { analysis, plan }
GeneratePlan ==
  \E job \in Jobs("generatePlan") :
    \E plan \in {"steps", "object"} :
      Commit(Enqueue(Taken(job), Task("cognitionReturn", job.call, job.via, TRUE, plan)))

\* the perception:complete listener resumes from
\* `await this.cognitiveSystem.process(perceivedData)`
CognitionReturn ==
  \E job \in Jobs("cognitionReturn") :
    IF job.ok
      THEN Commit(Emit(Taken(job), "cognition:complete", [src |-> job.call, plan |-> job.plan],
                       NoChoice(job.via)))
      ELSE Commit(Taken(job))

\* ActionSystem.execute resumes from `await this._executeAction(...)`: the
\* step has raised (caught: success=false) or not, and execute returns
ExecuteAction ==
  \E job \in Jobs("executeAction") :
    \E success \in BOOLEAN :
      Commit(Enqueue(Taken(job), Task("actionReturn", job.call, job.via, success, job.plan)))

\* the cognition:complete listener resumes from
\* `await this.actionSystem.execute(cognitiveResult.plan)`
ActionReturn ==
  \E job \in Jobs("actionReturn") :
    \E t \in now..MaxNow, r \in 0..(RandomRange - 1) :
      Commit(Emit(Taken(job), "action:complete", [src |-> job.call, success |-> job.ok],
                  Choice(job.via, FALSE, t, r)))

\* an agent that takes itself for uninitialized
NotInitialized(ag) == FALSE

\* this.initialized
Initialized(ag) == ag.initialized

\* Agent._setupEventListeners
SetupEventListeners(ls) ==
  On(On(On(ls, "perception:complete", Callback("perceptionComplete", 0)),
        "cognition:complete", Callback("cognitionComplete", 0)),
     "action:complete", Callback("actionComplete", 0))

\* agent.initialize(config) called by a client after construction
AgentInitialize ==
  /\ agent.initializeCalls < MaxInitializeCalls
  /\ listeners' = IF Initialized(agent) THEN listeners ELSE SetupEventListeners(listeners)
  /\ agent' = [initialized |-> TRUE, initializeCalls |-> agent.initializeCalls + 1]
  /\ UNCHANGED <<workingMemory, episodicMemory, memoryIndexes, now, nextObj, insertions,
                 microtasks, ioPending, llmService, calls, signals, errors, raised, completions,
                 busVars, unitVars, queried>>

Next ==
  \/ AgentInitialize
  \/ \E c \in Calls : StartCall(c)
  \/ Perception
  \/ ProcessResume
  \/ EnhanceReasoning
  \/ GeneratePlan
  \/ CognitionReturn
  \/ ExecuteAction
  \/ ActionReturn

Spec == Init /\ [][Next]_vars

(***************************************************************************)
(* Properties of the processing cycle.                                     *)
(***************************************************************************)
Count(s, x) == Cardinality({i \in 1..Len(s) : s[i] = x})

\* no continuation is suspended: every collaborator call has returned or raised
Quiescent == microtasks = <<>> /\ ioPending = {}

Started == {c \in Calls : calls[c].state # "idle"}

\* C1: the pending result of an Agent.process call is resolved or rejected at
\* most once, whatever other cycles complete on the agent.
C1_SettledAtMostOnce == \A c \in Calls : calls[c].settled <= 1

\* a call has been resolved and a second cycle:complete of its own input was
\* published after that
C1_Witness ==
  \E c \in Calls :
    /\ calls[c].state = "resolved"
    /\ Count(signals[c], "cycle:complete") = 2

\* C2: every Agent.process call is eventually settled.  Every collaborator
\* call of the model returns or raises, so once no continuation is left no
\* started call may still be pending.
C2_EventuallySettled ==
  Quiescent => \A c \in Started : calls[c].state \in {"resolved", "rejected"}

\* C3: no stored Episode combines the perceivedData of one call with the
\* cognitiveResult or actionResult of another call.
C3_NoCrossContamination ==
  \A e \in Range(episodicMemory) :
    /\ e.perceivedData.raw = e.cognitiveResult.src
    /\ e.perceivedData.raw = e.actionResult.src

\* C4: a caller is resolved with the Episode assembled by its own cycle, never
\* with an Episode produced by the cycle of another call.
C4_ResolvedWithOwnEpisode ==
  \A c \in Calls :
    calls[c].state = "resolved" => Value(calls[c].result).actionResult.src = c

\* C5: when Perception or Cognition raises during a cycle, an `error` signal
\* whose phase names the failing stage is published and the caller is
\* rejected with that cause (checked once no continuation is left).
C5_FailureReported ==
  Quiescent =>
    \A e \in raised :
      /\ \E i \in 1..Len(errors) : errors[i].phase = e.stage /\ errors[i].error = e
      /\ calls[e.call].state = "rejected"

\* C6: a cycle whose Action stage fails (success=false) appends no Episode to
\* the store.
C6_FailedActionNotStored ==
  \A e \in Range(episodicMemory) : e.actionResult.success

\* C7: each call publishes perception:complete, cognition:complete,
\* action:complete and cycle:complete at most once (exactly once when it is
\* resolved), and the store's insertion count grows by one per cycle.
C7_OnePerCycle ==
  /\ \A c \in Calls : \A i \in 2..5 :
       /\ Count(signals[c], CycleSignals[i]) <= 1
       /\ calls[c].state = "resolved" => Count(signals[c], CycleSignals[i]) = 1
  /\ nextObj - 1 <= Cardinality(Started)

\* the stage of a cycle signal
Stage(event) == CHOOSE i \in 1..Len(CycleSignals) : CycleSignals[i] = event

\* C8: the signals of one cycle are published in the order cycle:start,
\* perception:complete, cognition:complete, action:complete, cycle:complete:
\* none before a signal of an earlier stage, and none with a stage skipped.
C8_SignalsInOrder ==
  \A c \in Calls :
    /\ \A i, j \in 1..Len(signals[c]) :
         i < j => Stage(signals[c][i]) <= Stage(signals[c][j])
    /\ \A i \in 1..Len(signals[c]) :
         Stage(signals[c][i]) <= (IF i = 1 THEN 0 ELSE Stage(signals[c][i - 1])) + 1

(***************************************************************************)
(* The bus on its own.                                                     *)
(***************************************************************************)
\* the registrations invoked by the last emission, in invocation order
LogRegs == [i \in 1..Len(emission.log) |-> emission.log[i].reg]

\* the number of times the last emission invoked registration h
Invocations(h) == Cardinality({i \in 1..Len(emission.log) : emission.log[i].reg = h})

\* (event, fn) of registration h was registered by no other call of on
RegisteredOnce(h) ==
  \A g \in 1..Len(handles) :
    (handles[g].event = handles[h].event /\ handles[g].fn = handles[h].fn) => g = h

\* the handles a step invokes
Fired == {h \in 1..Len(handles) : h <= Len(handles') /\ handles'[h].invoked > handles[h].invoked}

\* a step that only invokes handles
HandleStep == Fired # {} /\ Len(handles') = Len(handles)

\* C22: every emission invokes the listeners of the event in registration
\* order: of two listeners invoked, the one registered earlier is invoked
\* first, whatever was registered and removed in between.
C22_RegistrationOrder ==
  \A i, j \in 1..Len(emission.log) : i < j => emission.log[i].reg < emission.log[j].reg

C22_Witness ==
  \E i, j \in 1..Len(emission.log) :
    \E h \in 1..Len(handles) :
      /\ i < j
      /\ emission.log[i].reg < h /\ h < emission.log[j].reg
      /\ h \notin emission.live
      /\ handles[h].event = emission.event

\* C23: when a listener raises during an emission, the listeners registered
\* after it for the event are still invoked, and emit returns normally.
C23_RaiseDoesNotStopDispatch ==
  emission.event # "" => (emission.returned /\ LogRegs = emission.snapshot)

C23_Witness ==
  \E i, j \in 1..Len(emission.log) :
    i < j /\ emission.log[i].fn = "raises" /\ emission.log[j].fn # "raises"

\* C24: a listener registered once for an event is invoked exactly once by
\* an emission of the event, with the payload, and not at all by an emission
\* of another event or by an emission after its handle was invoked.
C24_InvokedExactlyOnce ==
  \A h \in 1..Len(handles) :
    RegisteredOnce(h) =>
      /\ Invocations(h) =
           IF h \in emission.live /\ handles[h].event = emission.event THEN 1 ELSE 0
      /\ \A i \in 1..Len(emission.log) :
           emission.log[i].reg = h => emission.log[i].data = emission.data

C24_Witness ==
  \E h, g \in 1..Len(handles) :
    /\ RegisteredOnce(h) /\ RegisteredOnce(g)
    /\ handles[g].event = emission.event /\ handles[h].event = emission.event
    /\ Invocations(h) = 1
    /\ g < h /\ g \notin emission.live /\ ~handles[g].cleared /\ Invocations(g) = 0

\* C25: the first invocation of a handle removes exactly the registration
\* its call of on created; every other registration stays, in order.
C25_HandleRemovesOwnRegistration ==
  [][(HandleStep /\ \A h \in Fired : handles[h].invoked = 0) =>
       \A event \in DOMAIN registry :
         registry'[event] = SelectSeq(registry[event], LAMBDA entry : entry.reg \notin Fired)]_vars

\* C26: a second or later invocation of a handle leaves the listener table
\* unchanged, whatever was registered between the invocations.
C26_HandleIdempotent ==
  [][(HandleStep /\ \A h \in Fired : handles[h].invoked >= 1) =>
       listeners' = listeners]_vars

\* C27: after clear() the table holds no registration for any event, and no
\* listener registered before the clear is invoked by a later emission
\* unless it was registered again.
C27_ClearRemovesAll ==
  /\ DOMAIN listeners = DOMAIN registry
  /\ \A event \in DOMAIN registry :
       /\ Len(listeners[event]) = Len(registry[event])
       /\ \A i \in 1..Len(registry[event]) : ~handles[registry[event][i].reg].cleared
  /\ \A h \in emission.cleared : Invocations(h) = 0

C27_Witness ==
  \E h \in emission.cleared :
    \E i \in 1..Len(emission.log) :
      /\ handles[h].event = emission.event
      /\ handles[h].fn = emission.log[i].fn

(***************************************************************************)
(* Observers, completion and the working context.                          *)
(***************************************************************************)
\* a client has registered its raising observer on the cycle signals
Observing ==
  \A i \in 1..Len(CycleSignals) :
    /\ CycleSignals[i] \in DOMAIN listeners
    /\ Callback("observer", 0) \in Range(listeners[CycleSignals[i]])

\* no collaborator raised during the cycle of call c
Unfailed(c) == \A e \in raised : e.call # c

\* C28: an observer that raises while a cycle signal is dispatched does not
\* fail the cycle: a cycle none of whose stages raised still appends its
\* Episode and resolves its caller with it (checked once no continuation is
\* left).
C28_ObserverDoesNotFailCycle ==
  (Observing /\ Quiescent) =>
    \A c \in Started :
      Unfailed(c) =>
        /\ calls[c].state = "resolved"
        /\ Value(calls[c].result).actionResult.src = c
        /\ \E i \in 1..Len(insertions) : insertions[i].obj = Value(calls[c].result).obj

\* C29: when cycle:complete is published, and when the caller is resolved,
\* the Episode carried is in the store's sequence, in its day bucket and in
\* the bucket of each of its topics; and a caller is resolved only with an
\* Episode that was published.
C29_AppendedBeforePublished ==
  /\ \A k \in completions : k.appended /\ k.dated /\ k.topical
  /\ \A c \in Calls :
       calls[c].state = "resolved" =>
         \E k \in completions : k.at = "published" /\ k.obj = Value(calls[c].result).obj

\* C30: once no cycle is in flight, the stage outputs written by the
\* finished cycles are not readable through the working memory.
C30_WorkingContextReleased ==
  (/\ Quiescent
   /\ Started # {}
   /\ \A c \in Started : calls[c].state \in {"resolved", "rejected"}) =>
    /\ ~MapHas(workingMemory, "perceivedData")
    /\ ~MapHas(workingMemory, "cognitiveResult")

(***************************************************************************)
(* ActionSystem.execute on its own.                                        *)
(***************************************************************************)
\* the number of the first step of the plan that raises, 0 when none does
FirstRaising(steps) ==
  IF \E i \in 1..Len(steps) : StepRaises(steps[i])
    THEN CHOOSE i \in 1..Len(steps) :
           StepRaises(steps[i]) /\ \A j \in 1..(i - 1) : ~StepRaises(steps[j])
    ELSE 0

\* C31: execute never raises to its caller: for a plan that is no array it
\* returns success=false, and for a plan one of whose steps raises it returns
\* success=false with the number of the failing step and the results the
\* context holds.
C31_ExecuteNeverRaises ==
  execution.pc = "returned" =>
    /\ ~Value(execution.result).raised
    /\ InvalidPlan(execution.plan) => ~Value(execution.result).success
    /\ (~InvalidPlan(execution.plan) /\ FirstRaising(execution.plan.steps) # 0) =>
         /\ ~Value(execution.result).success
         /\ Value(execution.result).failedStep = Some(FirstRaising(execution.plan.steps))
         /\ Value(execution.result).partialResults = Some(execution.results)

C31_Witness ==
  /\ execution.pc = "returned"
  /\ ~InvalidPlan(execution.plan)
  /\ FirstRaising(execution.plan.steps) = 2
  /\ Len(execution.plan.steps) = 3

\* the registrations invoked by the last emission
LogSet == {emission.log[i].reg : i \in 1..Len(emission.log)}

\* C32: one emission invokes exactly the listeners registered for the event
\* when it starts: a listener unsubscribed by another listener during the
\* emission is still invoked in it, and a listener subscribed during the
\* emission is not.
C32_DispatchOnSnapshot ==
  /\ LogSet = Range(emission.snapshot)
  /\ \A h \in emission.removed : h \in Range(emission.snapshot) => h \in LogSet
  /\ \A h \in emission.added : h \notin LogSet

\* the last emission invoked a listener after another listener had
\* unsubscribed it, and a listener was subscribed for the event during it
C32_Witness ==
  /\ \E i, j \in 1..Len(emission.log) :
       /\ i < j
       /\ emission.log[i].fn = "remover"
       /\ emission.log[j].reg = emission.log[i].reg + 1
       /\ emission.log[j].reg \in emission.removed
  /\ \E h \in emission.added : handles[h].event = emission.event

(***************************************************************************)
(* The completion listener of Agent.process.                               *)
(***************************************************************************)
\* C33: whenever the cycle:complete signal of a call's cycle is published,
\* the call has already registered its completion listener (it is pending
\* on it, or was resolved through it).
C33_ListeningBeforeComplete ==
  \A k \in completions : k.at = "published" => k.state \in {"pending", "resolved"}

\* a cycle:complete was published for a pending call on an agent all of whose
\* awaits are resumed by promise jobs
C33_Witness ==
  /\ ~llmService
  /\ \E k \in completions : k.at = "published" /\ k.state = "pending"

\* the listeners registered for cycle:complete
CompletionListeners ==
  IF "cycle:complete" \in DOMAIN listeners THEN listeners["cycle:complete"] ELSE <<>>

\* every call started so far has been resolved or rejected
AllSettled == Started # {} /\ \A c \in Started : calls[c].state \in {"resolved", "rejected"}

StageListeners ==
  <<[event |-> "perception:complete", callback |-> Callback("perceptionComplete", 0)],
    [event |-> "cognition:complete", callback |-> Callback("cognitionComplete", 0)],
    [event |-> "action:complete", callback |-> Callback("actionComplete", 0)]>>

\* C35: the standing stage listeners are registered exactly once per agent,
\* also after initialize was called again, so one publication of a stage
\* signal invokes the listener that starts the next stage once.
C35_StageListenersOnce ==
  \A i \in 1..Len(StageListeners) :
    Count(listeners[StageListeners[i].event], StageListeners[i].callback) = 1

\* initialize was called again and a call made after that was resolved
C35_Witness ==
  /\ agent.initializeCalls >= 1
  /\ \E c \in Calls : calls[c].state = "resolved"

(***************************************************************************)
(* Buckets and queries of the episodic store.                              *)
(***************************************************************************)
\* the bucket holds no episode object twice
HoldsOnce(bucket) ==
  \A i, j \in 1..Len(bucket) : i # j => bucket[i].obj # bucket[j].obj

\* C36: every bucket of the day index and of the topic index holds each
\* episode at most once, also for an episode whose supplied topics name a
\* topic twice and for one whose topics are derived from several text items.
C36_BucketHoldsOnce ==
  /\ \A bucket \in Buckets(memoryIndexes.episodicByDate) : HoldsOnce(bucket)
  /\ \A bucket \in Buckets(memoryIndexes.episodicByTopic) : HoldsOnce(bucket)

\* C37: a query (getEpisode, getRecentEpisodes, getEpisodesByDate,
\* getEpisodesByTopic) leaves the stored sequence and both indexes as they
\* were, whatever sorting it does for its result.
C37_QueriesLeaveStore ==
  [][queried' # NoQuery =>
       /\ episodicMemory' = episodicMemory
       /\ memoryIndexes' = memoryIndexes]_vars

\* getRecentEpisodes was called on a full store whose insertion order is
\* not the order of its result
C37_Witness ==
  /\ queried = "getRecentEpisodes"
  /\ Len(episodicMemory) = MaxEpisodicMemory
  /\ GetRecentEpisodes(episodicMemory, MaxEpisodicMemory) # episodicMemory

(***************************************************************************)
(* Failures inside CognitiveSystem.process.                                *)
(***************************************************************************)
RuleBased == {"analyze", "createPlan"}

\* C38: a failure of the LLM during the enhancement of the reasoning or of
\* the planning never fails process: without a rule-based failure the call
\* resolves, with the initial analysis where the reasoning enhancement
\* failed and the initial plan where the planning enhancement failed; a
\* failure of analyze or createPlan rejects the call, and the last signal
\* published before that is cognition:process:error.
C38_LLMFailureNeverFailsProcess ==
  cognition.pc = "returned" =>
    /\ cognition.failed \cap RuleBased = {} => cognition.outcome = "resolved"
    /\ cognition.outcome = "resolved" =>
         /\ "reasoningLLM" \in cognition.failed => Value(cognition.result).analysis = "initial"
         /\ "planningLLM" \in cognition.failed => Value(cognition.result).plan = "initial"
    /\ cognition.failed \cap RuleBased # {} =>
         /\ cognition.outcome = "rejected"
         /\ cognition.signals[Len(cognition.signals)] = "cognition:process:error"

\* a call in which the LLM failed in both enhancements has returned
C38_Witness ==
  /\ cognition.pc = "returned"
  /\ {"reasoningLLM", "planningLLM"} \subseteq cognition.failed
  /\ cognition.outcome = "resolved"

(***************************************************************************)
(* Config.set with a validator that rejects the value.                     *)
(***************************************************************************)
\* C39: a set whose validator rejects the value raises and leaves the whole
\* configuration as it was before the call: no value and no intermediate
\* object along the path is created or modified.
C39_RejectedSetLeavesConfig ==
  config.set.raised = "Error" => config.config = config.set.before

====
